---- MODULE Spec2Model ----
(***************************************************************************)
(* Laufchallenge dashboard (src/app.py): one Streamlit script that fetches *)
(* a worksheet, normalises it (transform_data), applies the sidebar        *)
(* selections and renders metrics, records, charts and leaderboards.       *)
(*                                                                         *)
(* Distances are modelled as integers (whole kilometres), so every sum is  *)
(* exact.  Cells are records: a number cell carries its value, a text cell *)
(* is what pd.to_numeric / pd.to_datetime cannot parse.                    *)
(***************************************************************************)
EXTENDS Integers, Sequences, FiniteSets, TLC

(***************************************************************************)
(* Bounds of the model.                                                    *)
(***************************************************************************)
MaxRows == 3
\* runners of a leaderboard worksheet, and how many of them ran the short distance
MaxRunners == 11
MaxShort == 2

(***************************************************************************)
(* Program constants.                                                      *)
(***************************************************************************)
CHALLENGE_KWS == <<45, 46, 47, 48, 49, 50, 51, 52, 1, 2, 3, 4, 5, 6, 7, 8, 9, 10>>

Digits == <<"0", "1", "2", "3", "4", "5", "6", "7", "8", "9">>

\* str(n) for a non-negative integer n
RECURSIVE IntToStr(_)
IntToStr(n) ==
    IF n < 10 THEN Digits[n + 1]
    ELSE IntToStr(n \div 10) \o Digits[(n % 10) + 1]

CHALLENGE_KWS_STR == [i \in DOMAIN CHALLENGE_KWS |-> IntToStr(CHALLENGE_KWS[i])]

\* the elements of a sequence
Range(s) == {s[i] : i \in DOMAIN s}

\* s.isin(seq) / x in seq
IsIn(x, s) == \E i \in DOMAIN s : s[i] = x

\* position of a category in an ordered categorical (its code); 0 = not a category
CatCode(cats, x) ==
    IF IsIn(x, cats) THEN CHOOSE i \in DOMAIN cats : cats[i] = x ELSE 0

(***************************************************************************)
(* Cells of the worksheet as gspread returns them.                         *)
(***************************************************************************)
NumCell(n) == [num |-> TRUE, val |-> n]
TextCell == [num |-> FALSE, val |-> 0]
DateCell(d, m) == [ok |-> TRUE, day |-> d, month |-> m]
BadDateCell == [ok |-> FALSE, day |-> 0, month |-> 0]

\* a missing value of a numeric column (NaN)
NaN == [nan |-> TRUE, val |-> 0]
Num(n) == [nan |-> FALSE, val |-> n]
\* a missing value of a datetime column (NaT)
NaT == [nat |-> TRUE, day |-> 0, month |-> 0]

\* pd.to_numeric(cell, errors='coerce')
to_numeric(c) == IF c.num THEN Num(c.val) ELSE NaN

\* pd.to_datetime(cell, format='%d.%m.%Y', errors='coerce')
to_datetime(c) == IF c.ok THEN [nat |-> FALSE, day |-> c.day, month |-> c.month] ELSE NaT

\* the value a sum adds for a cell: NaN is skipped
KmOf(x) == IF x.nan THEN 0 ELSE x.val

\* Series.sum() over the rows of a table
RECURSIVE SumKM(_)
SumKM(rows) ==
    IF rows = <<>> THEN 0 ELSE KmOf(Head(rows).KM) + SumKM(Tail(rows))

\* an arbitrary enumeration of a finite set
RECURSIVE SetToSeq(_)
SetToSeq(S) ==
    IF S = {} THEN <<>>
    ELSE LET x == CHOOSE y \in S : TRUE IN <<x>> \o SetToSeq(S \ {x})

\* sum of a sequence of integers
RECURSIVE SumSeq(_)
SumSeq(s) == IF s = <<>> THEN 0 ELSE Head(s) + SumSeq(Tail(s))

\* Python's order on the labels the model uses (single capital letters)
Alphabet == <<"A", "B", "C", "D", "E", "F", "G", "H", "I", "J", "K", "L", "M",
              "N", "O", "P", "Q", "R", "S", "T", "U", "V", "W", "X", "Y", "Z">>
StrLess(a, b) == CatCode(Alphabet, a) < CatCode(Alphabet, b)

\* sorted(list(values)) of a set of labels
SortedLabels(S) == SortSeq(SetToSeq(S), StrLess)

\* an empty DataFrame, pd.DataFrame()
EmptyFrame == [columns |-> {}, rows |-> <<>>]

\* col.strip() on a column header
Strip(c) == IF c = " KM " THEN "KM" ELSE c

(***************************************************************************)
(* transform_data: normalisation                                           *)
(***************************************************************************)
\* downcast='integer' succeeds only when no week cell was coerced to NaN;
\* otherwise the KW column stays float64
KWIsInteger(rawrows) == \A i \in DOMAIN rawrows : rawrows[i].KW.num

\* astype(str) of one KW value: "46" in an integer column, "46.0" or "nan" in a
\* float column
KWToStr(kw, isInt) ==
    IF kw.nan THEN "nan"
    ELSE IF isInt THEN IntToStr(kw.val)
    ELSE IntToStr(kw.val) \o ".0"

NormalizeRow(r, isInt) ==
    [Name   |-> r.Name,
     Gruppe |-> r.Gruppe,
     KM     |-> to_numeric(r.KM),
     Datum  |-> to_datetime(r.Datum),
     KW     |-> to_numeric(r.KW),
     KW_STR |-> KWToStr(to_numeric(r.KW), isInt)]

Normalize(rawrows) ==
    [i \in DOMAIN rawrows |-> NormalizeRow(rawrows[i], KWIsInteger(rawrows))]

(***************************************************************************)
(* transform_data: aggregations                                            *)
(***************************************************************************)
\* df.groupby('KW_STR')['KM'].sum(): week label -> summed distance
WeeklySummary(rows) ==
    [k \in {rows[i].KW_STR : i \in DOMAIN rows} |->
        SumKM(SelectSeq(rows, LAMBDA r : r.KW_STR = k))]

\* a restriction to the challenge weeks before the year boundary only
FilterYearEndKWs(rows) ==
    SelectSeq(rows, LAMBDA r : IsIn(r.KW_STR, SubSeq(CHALLENGE_KWS_STR, 1, 8)))

\* df[df['KW_STR'].isin(CHALLENGE_KWS_STR)]
FilterChallengeKWs(rows) ==
    SelectSeq(rows, LAMBDA r : IsIn(r.KW_STR, CHALLENGE_KWS_STR))

\* order of two (Gruppe, KW_STR) rows by group, then by week number
NumericWeekLess(a, b) ==
    \/ StrLess(a.Gruppe, b.Gruppe)
    \/ /\ a.Gruppe = b.Gruppe
       /\ CHALLENGE_KWS[CatCode(CHALLENGE_KWS_STR, a.KW_STR)]
            < CHALLENGE_KWS[CatCode(CHALLENGE_KWS_STR, b.KW_STR)]

\* order of two (Gruppe, KW_STR) rows under sort_values(['Gruppe', 'KW_STR'])
\* with KW_STR an ordered categorical over CHALLENGE_KWS_STR
GroupWeekLess(a, b) ==
    \/ StrLess(a.Gruppe, b.Gruppe)
    \/ /\ a.Gruppe = b.Gruppe
       /\ CatCode(CHALLENGE_KWS_STR, a.KW_STR) < CatCode(CHALLENGE_KWS_STR, b.KW_STR)

\* groupby(['Gruppe', 'KW_STR'], observed=True)['KM'].sum().reset_index(),
\* then sort_values(['Gruppe', 'KW_STR'])
GroupWeeklySums(rows) ==
    LET keys == {[Gruppe |-> rows[i].Gruppe, KW_STR |-> rows[i].KW_STR] : i \in DOMAIN rows}
        cell(k) == [Gruppe |-> k.Gruppe, KW_STR |-> k.KW_STR,
                    KM |-> SumKM(SelectSeq(rows,
                              LAMBDA r : r.Gruppe = k.Gruppe /\ r.KW_STR = k.KW_STR))]
        grouped == SetToSeq({cell(k) : k \in keys})
    IN  SortSeq(grouped, GroupWeekLess)

\* a running sum over the whole table, not restarted per group
CumSumAcrossGroups(gw) ==
    [i \in DOMAIN gw |->
        [Gruppe |-> gw[i].Gruppe, KW_STR |-> gw[i].KW_STR, KM |-> gw[i].KM,
         Kumulierte_KM |-> SumSeq([j \in 1..i |-> gw[j].KM])]]

\* groupby('Gruppe')['KM'].cumsum(): running sum within each group, in row order
CumSum(gw) ==
    [i \in DOMAIN gw |->
        [Gruppe |-> gw[i].Gruppe, KW_STR |-> gw[i].KW_STR, KM |-> gw[i].KM,
         Kumulierte_KM |->
            SumSeq([j \in 1..i |-> IF gw[j].Gruppe = gw[i].Gruppe THEN gw[j].KM ELSE 0])]]

GroupWeekly(d) ==
    IF "Gruppe" \in d.columns
    THEN CumSum(GroupWeeklySums(FilterChallengeKWs(d.rows)))
    ELSE <<>>

\* transform_data(df): (error shown, df, weekly_summary, group_weekly)
transform_data(raw) ==
    LET cols == {Strip(c) : c \in raw.columns} IN
    IF "KM" \notin cols
    THEN [error |-> TRUE, df |-> EmptyFrame, weekly_summary |-> <<>>, group_weekly |-> <<>>]
    ELSE LET d == [columns |-> cols \cup {"KW_STR"}, rows |-> Normalize(raw.rows)] IN
         [error |-> FALSE, df |-> d,
          weekly_summary |-> WeeklySummary(d.rows),
          group_weekly |-> GroupWeekly(d)]

(***************************************************************************)
(* Sidebar: selectors and the filtered table                               *)
(***************************************************************************)
\* the week selector's values: 'Gesamt' or one calendar week
Gesamt == [gesamt |-> TRUE, kw |-> 0]
KwOption(k) == [gesamt |-> FALSE, kw |-> k]

\* df['Gruppe'].unique() / df_filtered['Name'].unique()
Unique(rows, col) == {rows[i][col] : i \in DOMAIN rows}

\* ['Alle'] + sorted(list(groups)); no selector without a Gruppe column
GroupOptions(d) ==
    IF "Gruppe" \in d.columns
    THEN <<"Alle">> \o SortedLabels(Unique(d.rows, "Gruppe"))
    ELSE <<>>

\* df_filtered[df_filtered[col] == selected] unless the selector is on 'Alle'
FilterByLabel(rows, col, selected) ==
    IF selected = "Alle" THEN rows
    ELSE SelectSeq(rows, LAMBDA r : r[col] = selected)

\* runner options taken from the full table
RunnerOptionsUnfiltered(d, rows) ==
    IF "Name" \in d.columns
    THEN <<"Alle">> \o SortedLabels(Unique(d.rows, "Name"))
    ELSE <<>>

\* ['Alle'] + sorted(list(runners)) over the group-filtered table
RunnerOptions(d, rows) ==
    IF "Name" \in d.columns
    THEN <<"Alle">> \o SortedLabels(Unique(rows, "Name"))
    ELSE <<>>

\* kw_options = ['Gesamt'] + CHALLENGE_KWS
KwOptions(d) ==
    IF "KW" \in d.columns
    THEN <<Gesamt>> \o [i \in DOMAIN CHALLENGE_KWS |-> KwOption(CHALLENGE_KWS[i])]
    ELSE <<>>

\* a week filter on the label column KW_STR instead of the number column KW
FilterByWeekLabel(rows, sk) ==
    IF sk.gesamt THEN rows
    ELSE SelectSeq(rows, LAMBDA r : r.KW_STR = IntToStr(sk.kw))

\* df[df['KW'] == selected_kw] unless the selector is on 'Gesamt'
FilterByWeek(rows, sk) ==
    IF sk.gesamt THEN rows
    ELSE SelectSeq(rows, LAMBDA r : ~r.KW.nan /\ r.KW.val = sk.kw)

\* df_filtered after the three selectors
ApplyFilters(rows, sg, sr, sk) ==
    FilterByWeek(FilterByLabel(FilterByLabel(rows, "Gruppe", sg), "Name", sr), sk)

(***************************************************************************)
(* Main area: metrics, records, charts, leaderboards                       *)
(***************************************************************************)
TOP_N == 10
DEFAULT_MAX_KM == 100

\* df.groupby(col)['KM'].sum().reset_index(): one row per label, in label order
GroupBySum(rows, col) ==
    LET labels == SortedLabels(Unique(rows, col)) IN
    [i \in DOMAIN labels |->
        [label |-> labels[i],
         KM |-> SumKM(SelectSeq(rows, LAMBDA r : r[col] = labels[i]))]]

\* sort_values('KM', ascending=False): descending, equal totals keep their order
SortByKMDesc(tab) ==
    LET idx == SortSeq([i \in DOMAIN tab |-> i],
                       LAMBDA i, j : \/ tab[i].KM > tab[j].KM
                                     \/ tab[i].KM = tab[j].KM /\ i < j)
    IN  [k \in DOMAIN tab |-> tab[idx[k]]]

\* Series.max() of the KM column of an aggregate
MaxKM(tab) == CHOOSE m \in {tab[i].KM : i \in DOMAIN tab} :
                  \A i \in DOMAIN tab : tab[i].KM <= m

\* df.loc[df['KM'].idxmax()]: the first row holding the largest valid distance
MaxKmEntry(rows) ==
    LET valid == {i \in DOMAIN rows : ~rows[i].KM.nan}
        best == {i \in valid : \A j \in valid : rows[j].KM.val <= rows[i].KM.val}
        first == CHOOSE i \in best : \A j \in best : i <= j
    IN  rows[first]

\* df.groupby('Name')['KM'].count(): per runner, the number of non-null KM cells
RunnerRuns(rows) ==
    [n \in Unique(rows, "Name") |->
        Cardinality({i \in DOMAIN rows : rows[i].Name = n /\ ~rows[i].KM.nan})]

\* runner_runs.max()
MostRuns(runs) == CHOOSE m \in {runs[n] : n \in DOMAIN runs} :
                      \A n \in DOMAIN runs : runs[n] <= m

\* runner_runs[runner_runs == most_runs].index.tolist()
RunnersWithMaxRuns(runs) ==
    SortedLabels({n \in DOMAIN runs : runs[n] = MostRuns(runs)})

\* per-group totals for the selected week without the reindex over all groups
GroupBarDataPresentOnly(d, sk) ==
    SortByKMDesc(GroupBySum(FilterByWeek(d.rows, sk), "Gruppe"))

\* section 6: per-group totals for the selected week, every group kept
GroupBarData(d, sk) ==
    LET all_groups == SortedLabels(Unique(d.rows, "Gruppe"))
        df_base == FilterByWeek(d.rows, sk)
        sums == GroupBySum(df_base, "Gruppe")
        total(g) == IF \E i \in DOMAIN sums : sums[i].label = g
                    THEN (CHOOSE x \in Range(sums) : x.label = g).KM
                    ELSE 0
    IN  IF df_base # <<>>
        THEN SortByKMDesc([i \in DOMAIN all_groups |->
                              [label |-> all_groups[i], KM |-> total(all_groups[i])]])
        ELSE [i \in DOMAIN all_groups |-> [label |-> all_groups[i], KM |-> 0]]

\* section 7: per-runner totals under the group and week selectors
RunnerSummary(d, sg, sk) ==
    SortByKMDesc(GroupBySum(FilterByWeek(FilterByLabel(d.rows, "Gruppe", sg), sk), "Name"))

\* section 8: a leaderboard over the filtered table
Ranking(rows, col) == SortByKMDesc(GroupBySum(rows, col))

\* a ranking that is not cut
HeadAll(tab, n) == tab

\* runner_ranking.head(10)
HeadN(tab, n) == IF Len(tab) <= n THEN tab ELSE SubSeq(tab, 1, n)

\* reset_index(drop=True): the rows numbered from 0 in their new order
ResetIndex(tab) ==
    [i \in DOMAIN tab |-> [label |-> tab[i].label, KM |-> tab[i].KM, index |-> i - 1]]

\* ranking.index = ranking.index + 1
IndexPlusOne(tab) ==
    [i \in DOMAIN tab |->
        [label |-> tab[i].label, KM |-> tab[i].KM, index |-> tab[i].index + 1]]

\* the team leaderboard: every group of the filtered table, ranked
GroupRanking(rows) == IndexPlusOne(ResetIndex(Ranking(rows, "Gruppe")))

\* the runner leaderboard: the first TOP_N runners of the filtered table, ranked
RunnerRanking(rows) == IndexPlusOne(HeadN(ResetIndex(Ranking(rows, "Name")), TOP_N))

\* max_value of the progress column
ProgressMax(tab) == IF tab # <<>> THEN MaxKM(tab) ELSE DEFAULT_MAX_KM

\* section 9: weekly totals under the group and runner selectors, reindexed to
\* the challenge weeks
WeeklySummaryChart(d, sg, sr) ==
    LET df_base_kw == FilterByLabel(FilterByLabel(d.rows, "Gruppe", sg), "Name", sr)
        ws == WeeklySummary(df_base_kw)
    IN  [i \in DOMAIN CHALLENGE_KWS_STR |->
            [KW_STR |-> CHALLENGE_KWS_STR[i],
             KM |-> IF df_base_kw # <<>> /\ CHALLENGE_KWS_STR[i] \in DOMAIN ws
                    THEN ws[CHALLENGE_KWS_STR[i]] ELSE 0]]

\* a cumulative chart restricted to the selected group
FigGroupCumFiltered(gw, sg) ==
    [data |-> FilterByLabel(gw, "Gruppe", sg),
     emphasised |-> IF sg # "Alle" /\ sg \in Unique(gw, "Gruppe") THEN {sg} ELSE {}]

\* section 10: the cumulative chart plots group_weekly; the selection only
\* decides which trace is emphasised
FigGroupCum(gw, sg) ==
    [data |-> gw,
     emphasised |-> IF sg # "Alle" /\ sg \in Unique(gw, "Gruppe") THEN {sg} ELSE {}]

(***************************************************************************)
(* The worksheets the fetch may return                                     *)
(***************************************************************************)
AllColumns == {"Name", "Gruppe", "KM", "KW", "Datum"}

RawRow(n, g, km, kw, dt) == [Name |-> n, Gruppe |-> g, KM |-> km, KW |-> kw, Datum |-> dt]

\* all sequences over D of length 0..n
SeqsUpTo(D, n) == UNION {[1..k -> D] : k \in 0..n}

GoodDate == DateCell(12, 11)

BadWeekRow == RawRow("A", "X", NumCell(1), TextCell, GoodDate)

\* a column the header lacks holds nothing the program can read
Project(r, header) ==
    [Name   |-> IF "Name" \in header THEN r.Name ELSE "-",
     Gruppe |-> IF "Gruppe" \in header THEN r.Gruppe ELSE "-",
     KM     |-> IF "KM" \in header \/ " KM " \in header THEN r.KM ELSE TextCell,
     KW     |-> r.KW,
     Datum  |-> r.Datum]

\* the worksheets with the given header and at most MaxRows rows drawn from D
Sheets(header, D) ==
    {[header |-> header, rows |-> [i \in DOMAIN r |-> Project(r[i], header)]] :
        r \in SeqsUpTo(D, MaxRows)}

\* rows for the records, the metrics and the data-quality paths: distances that
\* parse or not, dates that parse or not, one week cell that does not parse
RecordRows ==
    {RawRow(n, "X", km, NumCell(46), dt) :
        n \in {"A", "B"}, km \in {NumCell(1), NumCell(2), TextCell},
        dt \in {GoodDate, BadDateCell}}
    \cup {BadWeekRow}

\* rows for headers that lack a column or carry padding
HeaderRows ==
    {RawRow("A", "X", NumCell(1), NumCell(46), GoodDate),
     RawRow("B", "Y", NumCell(2), NumCell(1), GoodDate)}

Headers ==
    {AllColumns \ {"KM"}, AllColumns \ {"Gruppe"}, AllColumns \ {"Name"},
     (AllColumns \ {"KM"}) \cup {" KM "}}

RecordSheets ==
    Sheets(AllColumns, RecordRows) \cup UNION {Sheets(h, HeaderRows) : h \in Headers}

\* rows for the selectors: every runner in every group in two challenge weeks,
\* a longer run, a week outside the challenge and a week cell that does not parse
FilterRows ==
    {RawRow(n, g, NumCell(1), NumCell(kw), GoodDate) :
        n \in {"A", "B"}, g \in {"X", "Y"}, kw \in {46, 1}}
    \cup {RawRow("A", "X", NumCell(2), NumCell(46), GoodDate),
          RawRow("A", "X", NumCell(1), NumCell(20), GoodDate),
          BadWeekRow}

FilterSheets == Sheets(AllColumns, FilterRows)

\* rows for the week aggregates: two groups, weeks 46 and 1 of the challenge and
\* week 20 outside it, and one row each with an unparseable week, an unparseable
\* distance and a negative distance
WeekRows ==
    {RawRow("A", g, NumCell(km), NumCell(kw), GoodDate) :
        g \in {"X", "Y"}, km \in {1, 2}, kw \in {46, 1}}
    \cup {RawRow("A", g, NumCell(1), NumCell(20), GoodDate) : g \in {"X", "Y"}}
    \cup {BadWeekRow,
          RawRow("A", "X", TextCell, NumCell(46), GoodDate),
          RawRow("A", "X", NumCell(-1), NumCell(1), GoodDate)}

WeekSheets == Sheets(AllColumns, WeekRows)

\* rows for the leaderboards: one run in week 46 per runner, the runners placed
\* in two groups in turn, each run short (1 km) or long (2 km), and optionally
\* a second run of the first runner in week 1
RunnerNames == <<"A", "B", "C", "D", "E", "F", "G", "H", "I", "J", "K", "L", "M">>

RankingRow(i, short) ==
    RawRow(RunnerNames[i], IF i % 2 = 1 THEN "X" ELSE "Y",
           NumCell(IF short THEN 1 ELSE 2), NumCell(46), GoodDate)

SecondRunRow == RawRow("A", "X", NumCell(2), NumCell(1), GoodDate)

RankingSheets ==
    {[header |-> AllColumns,
      rows |-> [i \in 1..n |-> RankingRow(i, i \in S)]
                  \o (IF extra /\ n > 0 THEN <<SecondRunRow>> ELSE <<>>)] :
        n \in 0..MaxRunners,
        S \in {T \in SUBSET (1..MaxRunners) : Cardinality(T) <= MaxShort},
        extra \in BOOLEAN}

(***************************************************************************)
(* State                                                                   *)
(***************************************************************************)
VARIABLES
    sheet,            \* the remote worksheet: header and rows
    cached,           \* load_data's cache holds the fetched table
    pc,               \* position of the script run
    df_raw,           \* load_data()'s result
    df,               \* the normalised table
    weekly_summary,   \* unfiltered weekly totals
    group_weekly,     \* group-weekly cumulative table
    selected_group, selected_runner, selected_kw,
    options,          \* option lists of the three selectors
    df_filtered,      \* the filtered table
    messages,         \* st.error / st.info / st.warning notices shown
    rendered,         \* elements drawn in this pass
    view              \* the data behind the drawn elements

vars == <<sheet, cached, pc, df_raw, df, weekly_summary, group_weekly,
          selected_group, selected_runner, selected_kw, options, df_filtered,
          messages, rendered, view>>

NoOptions == [group |-> <<>>, runner |-> <<>>, kw |-> <<>>]

NoView ==
    [gesamt_km_total |-> 0, anzahl_laeufe_total |-> 0, anzahl_gruppen |-> 0,
     max_km_entry |-> <<>>, runner_runs |-> <<>>, most_runs |-> 0,
     runners_with_max_runs |-> <<>>,
     group_bar_data |-> <<>>, runner_summary |-> <<>>,
     group_ranking |-> <<>>, max_group_km |-> 0,
     runner_ranking |-> <<>>, max_runner_km |-> 0,
     weekly_summary_chart |-> <<>>, fig_group_cum |-> <<>>]

\* the state at the top of a script run
FreshRun ==
    /\ pc = "start"
    /\ df_raw = EmptyFrame
    /\ df = EmptyFrame
    /\ weekly_summary = <<>>
    /\ group_weekly = <<>>
    /\ selected_group = "Alle"
    /\ selected_runner = "Alle"
    /\ selected_kw = Gesamt
    /\ options = NoOptions
    /\ df_filtered = <<>>
    /\ messages = {}
    /\ rendered = {}
    /\ view = NoView

Init ==
    /\ sheet \in RecordSheets
    /\ cached = FALSE
    /\ FreshRun

InitFilter ==
    /\ sheet \in FilterSheets
    /\ cached = FALSE
    /\ FreshRun

InitWeeks ==
    /\ sheet \in WeekSheets
    /\ cached = FALSE
    /\ FreshRun

InitRanking ==
    /\ sheet \in RankingSheets
    /\ cached = FALSE
    /\ FreshRun

(***************************************************************************)
(* load_data                                                               *)
(***************************************************************************)
FetchOutcomes == {"ok", "no_secrets", "auth_failed", "network_error", "worksheet_not_found"}

\* pd.DataFrame(worksheet.get_all_records()): no records, no columns
DataFrame(ws) ==
    IF ws.rows = <<>> THEN EmptyFrame
    ELSE [columns |-> ws.header, rows |-> ws.rows]

\* the notice a failed fetch shows before st.stop()
LoadError(outcome) ==
    IF outcome = "no_secrets" THEN "error_secrets_missing" ELSE "error_load_failed"

\* a load that lets the run go on after a failed fetch
LoadContinuesAlways(outcome) == TRUE

\* load_data() continues the run only with a fetched table: every failure
\* path ends in st.stop()
LoadContinues(outcome) == outcome = "ok"

LoadData ==
    /\ pc = "start"
    /\ \E outcome \in (IF cached THEN {"ok"} ELSE FetchOutcomes) :
          IF LoadContinues(outcome)
          THEN /\ df_raw' = DataFrame(sheet)
               /\ cached' = (outcome = "ok")
               /\ pc' = "loaded"
               /\ messages' = IF outcome = "ok" THEN messages
                              ELSE messages \cup {LoadError(outcome)}
          ELSE /\ messages' = messages \cup {LoadError(outcome)}
               /\ pc' = "stopped"
               /\ UNCHANGED <<df_raw, cached>>
    /\ UNCHANGED <<sheet, df, weekly_summary, group_weekly, selected_group,
                   selected_runner, selected_kw, options, df_filtered, rendered, view>>

(***************************************************************************)
(* transform_data and the empty-data stop                                  *)
(***************************************************************************)
TransformData ==
    /\ pc = "loaded"
    /\ LET t == transform_data(df_raw) IN
          /\ df' = t.df
          /\ weekly_summary' = t.weekly_summary
          /\ group_weekly' = t.group_weekly
          /\ messages' = IF t.error THEN messages \cup {"error_km_column_missing"}
                         ELSE messages
    /\ pc' = "transformed"
    /\ UNCHANGED <<sheet, cached, df_raw, selected_group, selected_runner, selected_kw,
                   options, df_filtered, rendered, view>>

\* df.empty or df['KM'].sum() == 0
NoValidData(d) == d.rows = <<>> \/ d.columns = {} \/ SumKM(d.rows) = 0

NoData ==
    /\ pc = "transformed"
    /\ NoValidData(df)
    /\ messages' = messages \cup {"info_no_data"}
    /\ pc' = "stopped"
    /\ UNCHANGED <<sheet, cached, df_raw, df, weekly_summary, group_weekly,
                   selected_group, selected_runner, selected_kw, options,
                   df_filtered, rendered, view>>

(***************************************************************************)
(* The dashboard: sidebar and sections 4 to 11                             *)
(***************************************************************************)
\* the weeks a modelled user picks among the week selector's options
WeekChoices == {Gesamt, KwOption(46), KwOption(1)}

\* a selectbox returns one of its options; without the widget the default stays
Choices(opts, default) == IF opts = <<>> THEN {default} ELSE Range(opts)

SidebarElements(d) ==
    {"logo", "select_kw"}
        \cup (IF "Gruppe" \in d.columns THEN {"select_group"} ELSE {})
        \cup (IF "Name" \in d.columns THEN {"select_runner"} ELSE {})

\* '%d.%m.' of the record's date raises on NaT
RecordsCrash(d) == "Name" \in d.columns /\ MaxKmEntry(d.rows).Datum.nat

MainElements(d, gw) ==
    {"title", "metrics", "fig_kw", "detail"}
        \cup (IF "Name" \in d.columns
              THEN {"records", "fig_runner", "runner_ranking"} ELSE {})
        \cup (IF "Gruppe" \in d.columns
              THEN {"fig_group_bar", "group_ranking"} ELSE {})
        \cup (IF gw # <<>> THEN {"fig_group_cum"} ELSE {})

Metrics(d) ==
    [NoView EXCEPT
        !.gesamt_km_total = SumKM(d.rows),
        !.anzahl_laeufe_total = Len(d.rows),
        !.anzahl_gruppen = IF "Gruppe" \in d.columns
                           THEN Cardinality(Unique(d.rows, "Gruppe")) ELSE 0]

MainView(d, gw, dff, sg, sr, sk) ==
    LET hasName == "Name" \in d.columns
        hasGroup == "Gruppe" \in d.columns
        runs == RunnerRuns(d.rows)
        grank == GroupRanking(dff)
        rrank == RunnerRanking(dff)
    IN  [Metrics(d) EXCEPT
            !.max_km_entry = IF hasName THEN MaxKmEntry(d.rows) ELSE <<>>,
            !.runner_runs = IF hasName THEN runs ELSE <<>>,
            !.most_runs = IF hasName THEN MostRuns(runs) ELSE 0,
            !.runners_with_max_runs = IF hasName THEN RunnersWithMaxRuns(runs) ELSE <<>>,
            !.group_bar_data = IF hasGroup THEN GroupBarData(d, sk) ELSE <<>>,
            !.runner_summary = IF hasName THEN RunnerSummary(d, sg, sk) ELSE <<>>,
            !.group_ranking = IF hasGroup THEN grank ELSE <<>>,
            !.max_group_km = IF hasGroup THEN ProgressMax(grank) ELSE 0,
            !.runner_ranking = IF hasName THEN rrank ELSE <<>>,
            !.max_runner_km = IF hasName THEN ProgressMax(rrank) ELSE 0,
            !.weekly_summary_chart = WeeklySummaryChart(d, sg, sr),
            !.fig_group_cum = IF gw # <<>> THEN FigGroupCum(gw, sg) ELSE <<>>]

RenderDashboard ==
    /\ pc = "transformed"
    /\ ~NoValidData(df)
    /\ \E sg \in Choices(GroupOptions(df), "Alle") :
        LET byGroup == FilterByLabel(df.rows, "Gruppe", sg) IN
        \E sr \in Choices(RunnerOptions(df, byGroup), "Alle") :
        \E sk \in Choices(KwOptions(df), Gesamt) \cap WeekChoices :
          /\ selected_group' = sg
          /\ selected_runner' = sr
          /\ selected_kw' = sk
          /\ options' = [group |-> GroupOptions(df),
                         runner |-> RunnerOptions(df, byGroup),
                         kw |-> KwOptions(df)]
          /\ df_filtered' = ApplyFilters(df.rows, sg, sr, sk)
          /\ IF RecordsCrash(df)
             THEN /\ rendered' = SidebarElements(df) \cup {"title", "metrics"}
                  /\ view' = Metrics(df)
                  /\ messages' = messages
                  /\ pc' = "crashed"
             ELSE /\ rendered' = SidebarElements(df) \cup MainElements(df, group_weekly)
                  /\ view' = MainView(df, group_weekly, df_filtered', sg, sr, sk)
                  /\ messages' = IF "Name" \in df.columns THEN messages
                                 ELSE messages \cup {"info_no_name_column"}
                  /\ pc' = "done"
    /\ UNCHANGED <<sheet, cached, df_raw, df, weekly_summary, group_weekly>>

\* a user interaction or a page reload runs the script again from the top
Rerun ==
    /\ pc \in {"done", "stopped", "crashed"}
    /\ pc' = "start"
    /\ df_raw' = EmptyFrame
    /\ df' = EmptyFrame
    /\ weekly_summary' = <<>>
    /\ group_weekly' = <<>>
    /\ selected_group' = "Alle"
    /\ selected_runner' = "Alle"
    /\ selected_kw' = Gesamt
    /\ options' = NoOptions
    /\ df_filtered' = <<>>
    /\ messages' = {}
    /\ rendered' = {}
    /\ view' = NoView
    /\ UNCHANGED <<sheet, cached>>

Next == LoadData \/ TransformData \/ NoData \/ RenderDashboard \/ Rerun

Spec == Init /\ [][Next]_vars

SpecFilter == InitFilter /\ [][Next]_vars

SpecWeeks == InitWeeks /\ [][Next]_vars

SpecRanking == InitRanking /\ [][Next]_vars

(***************************************************************************)
(* Properties                                                              *)
(***************************************************************************)
\* the run has passed transform_data with a table that has a Gruppe column
Transformed == pc \in {"transformed", "done", "crashed"} /\ "Gruppe" \in df.columns

\* position of a week number in the Challenge Week Set, 0 outside it
WeekPos(kw) == CatCode(CHALLENGE_KWS, kw)

\* the week number a label of the group-weekly table stands for
WeekOfLabel(label) == CHALLENGE_KWS[CatCode(CHALLENGE_KWS_STR, label)]

\* distance of the rows of group g whose week lies in the Challenge Week Set at
\* or before position p
KmUpTo(rows, g, p) ==
    SumKM(SelectSeq(rows, LAMBDA r : /\ r.Gruppe = g
                                     /\ ~r.KW.nan
                                     /\ WeekPos(r.KW.val) \in 1..p))

\* C1: every row of the group-weekly table carries, as Kumulierte_KM, the sum of
\* its group's distances over the challenge weeks at or before the row's week
\* in Challenge Week Set order (45..52, then 1..10), and the rows of one group
\* follow that order, so a week-1 row comes after and includes a week-46 row.
C1_CumulativeInChallengeOrder ==
    Transformed =>
        /\ \A i \in DOMAIN group_weekly :
              group_weekly[i].Kumulierte_KM =
                  KmUpTo(df.rows, group_weekly[i].Gruppe,
                         WeekPos(WeekOfLabel(group_weekly[i].KW_STR)))
        /\ \A i, j \in DOMAIN group_weekly :
              (i < j /\ group_weekly[i].Gruppe = group_weekly[j].Gruppe) =>
                  WeekPos(WeekOfLabel(group_weekly[i].KW_STR))
                      < WeekPos(WeekOfLabel(group_weekly[j].KW_STR))

\* a group with data in week 46 and in week 1: the week-1 row follows the week-46
\* row and holds both weeks' distance
C1_Witness ==
    /\ pc = "done"
    /\ \E i, j \in DOMAIN group_weekly :
          /\ i < j
          /\ group_weekly[i].Gruppe = group_weekly[j].Gruppe
          /\ group_weekly[i].KW_STR = "46"
          /\ group_weekly[j].KW_STR = "1"
          /\ group_weekly[i].KM > 0
          /\ group_weekly[j].KM > 0
          /\ group_weekly[j].Kumulierte_KM = group_weekly[i].KM + group_weekly[j].KM

\* the rows of group g in the group-weekly table, in table order
GroupTrace(g) == SelectSeq(group_weekly, LAMBDA x : x.Gruppe = g)

\* the last cumulative value of group g, 0 when the group has no row
FinalCumulative(g) ==
    IF GroupTrace(g) = <<>> THEN 0
    ELSE GroupTrace(g)[Len(GroupTrace(g))].Kumulierte_KM

NonDecreasing(g) ==
    \A i \in 1..(Len(GroupTrace(g)) - 1) :
        GroupTrace(g)[i].Kumulierte_KM <= GroupTrace(g)[i + 1].Kumulierte_KM

\* the group comparison is drawn with the week selector on 'Gesamt'
GroupTotalsShown == pc = "done" /\ "fig_group_bar" \in rendered /\ selected_kw.gesamt

\* every distance of group g that parses is non-negative
NonNegativeGroup(g) ==
    \A i \in DOMAIN df.rows :
        df.rows[i].Gruppe = g => KmOf(df.rows[i].KM) >= 0

\* every week cell parses to a week of the Challenge Week Set
AllInsideChallenge ==
    \A i \in DOMAIN df.rows : ~df.rows[i].KW.nan /\ WeekPos(df.rows[i].KW.val) > 0

\* C2 as stated: for every group and every input table the cumulative sum is
\* non-decreasing in canonical week order and ends at the group's groupTotals
\* entry.
C2_AsStated ==
    GroupTotalsShown =>
        \A k \in DOMAIN view.group_bar_data :
            /\ NonDecreasing(view.group_bar_data[k].label)
            /\ FinalCumulative(view.group_bar_data[k].label) = view.group_bar_data[k].KM

\* C2 amended: the cumulative sum of a group whose distances are non-negative is
\* non-decreasing in canonical week order; when every row of the table lies in a
\* week of the Challenge Week Set, every group has a row in the group-weekly
\* table and its final cumulative value equals its groupTotals entry.
C2_CumulativeMonotoneAndTotal ==
    GroupTotalsShown =>
        \A k \in DOMAIN view.group_bar_data :
            LET g == view.group_bar_data[k].label IN
            /\ NonNegativeGroup(g) => NonDecreasing(g)
            /\ AllInsideChallenge =>
                  /\ GroupTrace(g) # <<>>
                  /\ FinalCumulative(g) = view.group_bar_data[k].KM

\* two groups inside the challenge, one of them with rows in two weeks
C2_Witness ==
    /\ GroupTotalsShown
    /\ Len(view.group_bar_data) = 2
    /\ \A k \in DOMAIN view.group_bar_data :
          LET g == view.group_bar_data[k].label IN
          /\ NonNegativeGroup(g)
          /\ view.group_bar_data[k].KM > 0
    /\ AllInsideChallenge
    /\ \E k \in DOMAIN view.group_bar_data :
          Len(GroupTrace(view.group_bar_data[k].label)) = 2

\* sum of the values of a week -> distance mapping
SumOfSummary(ws) == SumSeq([i \in 1..Cardinality(DOMAIN ws) |-> ws[SetToSeq(DOMAIN ws)[i]]])

\* sum of the per-group, per-week distances of the group-weekly table
SumOfGroupWeekly(gw) == SumSeq([i \in DOMAIN gw |-> gw[i].KM])

\* C3 as stated: whenever every row carries a group label, the unfiltered weekly
\* totals add up to the per-group, per-week distances of the group-weekly table.
C3_AsStated ==
    Transformed => SumOfSummary(weekly_summary) = SumOfGroupWeekly(group_weekly)

\* C3 amended: when every row carries a group label and every week cell parses
\* to a week of the Challenge Week Set, the unfiltered weekly totals add up to
\* the per-group, per-week distances of the group-weekly table.
C3_ConservationInsideChallenge ==
    (Transformed /\ AllInsideChallenge) =>
        SumOfSummary(weekly_summary) = SumOfGroupWeekly(group_weekly)

\* two groups and both challenge weeks, three rows, a positive total
C3_Witness ==
    /\ Transformed
    /\ AllInsideChallenge
    /\ Len(df.rows) = 3
    /\ Cardinality(DOMAIN weekly_summary) = 2
    /\ Cardinality(Unique(group_weekly, "Gruppe")) = 2
    /\ SumOfGroupWeekly(group_weekly) > 2

\* the rows of the fetched worksheet that runner n reported
RowsOf(n) == {i \in DOMAIN sheet.rows : sheet.rows[i].Name = n}

\* the whole dashboard was drawn for a table with a Name column
RecordsShown == pc = "done" /\ "records" \in rendered

\* sum of the distances of the worksheet cells that are numbers
ParsedKm(rawrows) ==
    SumSeq([i \in DOMAIN rawrows |-> IF rawrows[i].KM.num THEN rawrows[i].KM.val ELSE 0])

\* C4: a row whose distance cell does not parse adds 0 to the distance sums but
\* counts in the total row count and in its runner's entry count, the tally
\* behind the most prolific runner.
C4_UnparseableRowStillCounted ==
    RecordsShown =>
        /\ view.gesamt_km_total = ParsedKm(sheet.rows)
        /\ view.anzahl_laeufe_total = Len(sheet.rows)
        /\ \A n \in DOMAIN view.runner_runs :
              view.runner_runs[n] = Cardinality(RowsOf(n))

\* C5: the most prolific runners shown are exactly the runners whose number of
\* rows is the largest number of rows of any runner, all of them on a tie.
C5_MostProlificAllTied ==
    RecordsShown =>
        Range(view.runners_with_max_runs) =
            {n \in Unique(sheet.rows, "Name") :
                \A m \in Unique(sheet.rows, "Name") :
                    Cardinality(RowsOf(m)) <= Cardinality(RowsOf(n))}

\* distance the worksheet holds for challenge week w under the sentinel selection
KmOfWeek(w) ==
    SumSeq([i \in DOMAIN sheet.rows |->
              IF sheet.rows[i].KM.num /\ sheet.rows[i].KW.num /\ sheet.rows[i].KW.val = w
              THEN sheet.rows[i].KM.val ELSE 0])

\* C6, the pass survives: no row with an unparseable cell makes the run fail
C6_RenderNeverFails == pc # "crashed"

\* C6, the row is retained: the normalised table has one row per worksheet row
C6_RowsRetained ==
    (pc \in {"transformed", "done", "crashed"} /\ ~NoValidData(df)) =>
        Len(df.rows) = Len(sheet.rows)

\* C6, the other rows keep their contributions: with the selectors on their
\* sentinels the weekly chart shows, for every challenge week, the distance of
\* the rows reported for that week
C6_OtherRowsUnchanged ==
    (pc = "done" /\ selected_group = "Alle" /\ selected_runner = "Alle") =>
        \A i \in DOMAIN view.weekly_summary_chart :
            view.weekly_summary_chart[i].KM = KmOfWeek(CHALLENGE_KWS[i])

\* C6: an unparseable distance, date or week cell is recovered locally: the row
\* is retained, the other rows' contributions are unchanged and the render pass
\* never fails.
C6_DataQualityRecoveredLocally ==
    C6_RowsRetained /\ C6_OtherRowsUnchanged /\ C6_RenderNeverFails

\* the sidebar was drawn in this pass
SidebarShown == pc \in {"done", "crashed"}

\* a selector's list is the sentinel followed by exactly the labels of S in
\* ascending order
SentinelThenSorted(opts, S) ==
    /\ Len(opts) = Cardinality(S) + 1
    /\ opts[1] = "Alle"
    /\ {opts[i] : i \in 2..Len(opts)} = S
    /\ \A i, j \in 2..Len(opts) : i < j => StrLess(opts[i], opts[j])

\* the rows left by the group selector, and by the group and runner selectors
RowsAfterGroup ==
    {i \in DOMAIN df.rows : selected_group = "Alle" \/ df.rows[i].Gruppe = selected_group}

RowsAfterRunner ==
    {i \in RowsAfterGroup : selected_runner = "Alle" \/ df.rows[i].Name = selected_runner}

GroupAndRunnerOptionsCascade ==
    /\ SentinelThenSorted(options.group, {df.rows[i].Gruppe : i \in DOMAIN df.rows})
    /\ SentinelThenSorted(options.runner, {df.rows[i].Name : i \in RowsAfterGroup})

\* C7 as stated: each selector lists its sentinel and then the distinct values
\* of its dimension in the table left by the selectors before it; the week
\* selector lists the weeks present in the group-and-runner-filtered table.
C7_AsStated ==
    (SidebarShown /\ AllColumns \subseteq df.columns) =>
        /\ GroupAndRunnerOptionsCascade
        /\ options.kw[1] = Gesamt
        /\ {options.kw[i].kw : i \in 2..Len(options.kw)} =
              {df.rows[i].KW.val : i \in {j \in RowsAfterRunner : ~df.rows[j].KW.nan}}

\* C7 amended: the group selector lists 'Alle' and the sorted distinct groups of
\* the full table, the runner selector 'Alle' and the sorted distinct runners of
\* the group-filtered table; the week selector lists 'Gesamt' and then the weeks
\* of the Challenge Week Set in its own order, whatever weeks the table holds.
C7_OptionsCascade ==
    (SidebarShown /\ AllColumns \subseteq df.columns) =>
        /\ GroupAndRunnerOptionsCascade
        /\ Len(options.kw) = Len(CHALLENGE_KWS) + 1
        /\ options.kw[1] = Gesamt
        /\ \A i \in DOMAIN CHALLENGE_KWS :
              ~options.kw[i + 1].gesamt /\ options.kw[i + 1].kw = CHALLENGE_KWS[i]

\* a group is selected whose runners are fewer than the table's runners
C7_Witness ==
    /\ pc = "done"
    /\ selected_group # "Alle"
    /\ Len(options.group) = 3
    /\ Len(options.runner) = 2
    /\ Cardinality({df.rows[i].Name : i \in DOMAIN df.rows}) = 2

\* row r passes every selector that is on a concrete value
Selected(r) ==
    /\ selected_group = "Alle" \/ r.Gruppe = selected_group
    /\ selected_runner = "Alle" \/ r.Name = selected_runner
    /\ selected_kw.gesamt \/ (~r.KW.nan /\ r.KW.val = selected_kw.kw)

\* C8: the filtered table holds exactly the rows of the normalised table that
\* equal every concretely selected group, runner and week, in table order; with
\* the three selectors on 'Alle'/'Gesamt' it is the table itself, row for row.
C8_FilteredRowsExact ==
    SidebarShown =>
        /\ df_filtered = SelectSeq(df.rows, Selected)
        /\ (selected_group = "Alle" /\ selected_runner = "Alle" /\ selected_kw.gesamt)
              => df_filtered = df.rows

\* three selectors on concrete values keep one row of three, in a table whose
\* week column did not parse throughout
C8_Witness ==
    /\ pc = "done"
    /\ selected_group # "Alle"
    /\ selected_runner # "Alle"
    /\ ~selected_kw.gesamt
    /\ Len(df.rows) = 3
    /\ Len(df_filtered) = 1
    /\ \E i \in DOMAIN df.rows : df.rows[i].KW.nan

\* the notices of a fatal error
FatalErrors == {"error_secrets_missing", "error_load_failed", "error_km_column_missing"}

\* this pass's fetch failed: the run stopped without a cached table
FetchFailed == pc = "stopped" /\ ~cached

\* the fetched table has no distance column
KmColumnAbsent ==
    /\ cached
    /\ pc \in {"transformed", "stopped", "done", "crashed"}
    /\ "KM" \notin {Strip(c) : c \in df_raw.columns}

\* C9: a failed fetch or an absent 'KM' column shows an error message, and a
\* pass that shows a fatal error draws no filter control, metric, chart,
\* leaderboard or detail table.
C9_FatalErrorHaltsRender ==
    /\ FetchFailed =>
          messages \cap {"error_secrets_missing", "error_load_failed"} # {}
    /\ KmColumnAbsent => "error_km_column_missing" \in messages
    /\ (messages \cap FatalErrors # {}) =>
          /\ pc \in {"transformed", "stopped"}
          /\ rendered = {}
          /\ options = NoOptions
          /\ view = NoView

\* a worksheet with rows but no 'KM' column was fetched and the pass has stopped
C9_Witness ==
    /\ pc = "stopped"
    /\ sheet.rows # <<>>
    /\ "KM" \notin sheet.header
    /\ " KM " \notin sheet.header
    /\ "error_km_column_missing" \in messages
    /\ rendered = {}

\* the static aggregates of the fetched worksheet
StaticOf(ws) == transform_data(DataFrame(ws))

\* C10: the unfiltered weekly summary and the group-weekly cumulative table, and
\* the data of the cumulative chart drawn from it, are those of the fetched
\* table alone, whatever group, runner and week are selected.
C10_StaticAggregatesUnfiltered ==
    pc \in {"done", "crashed"} =>
        /\ weekly_summary = StaticOf(sheet).weekly_summary
        /\ group_weekly = StaticOf(sheet).group_weekly
        /\ DOMAIN weekly_summary = {df.rows[i].KW_STR : i \in DOMAIN df.rows}
        /\ "fig_group_cum" \in rendered =>
              /\ view.fig_group_cum.data = StaticOf(sheet).group_weekly
              /\ {<<x.Gruppe, x.KW_STR>> : x \in Range(view.fig_group_cum.data)} =
                    {<<df.rows[i].Gruppe, df.rows[i].KW_STR>> :
                        i \in {j \in DOMAIN df.rows :
                                  IsIn(df.rows[j].KW_STR, CHALLENGE_KWS_STR)}}

\* the cumulative chart is drawn with all three selectors on concrete values
\* and shows a group other than the selected one
C10_Witness ==
    /\ pc = "done"
    /\ "fig_group_cum" \in rendered
    /\ selected_group # "Alle"
    /\ selected_runner # "Alle"
    /\ ~selected_kw.gesamt
    /\ \E i \in DOMAIN view.fig_group_cum.data :
          view.fig_group_cum.data[i].Gruppe # selected_group

\* the group comparison was drawn in this pass
GroupBarShown == pc = "done" /\ "fig_group_bar" \in rendered

\* the rows of the normalised table of group g in the selected week
RowsOfGroupInWeek(g) ==
    {i \in DOMAIN df.rows :
        /\ df.rows[i].Gruppe = g
        /\ selected_kw.gesamt
              \/ (~df.rows[i].KW.nan /\ df.rows[i].KW.val = selected_kw.kw)}

\* distance of the normalised rows with the given indices
KmOfRows(I) == SumSeq([i \in DOMAIN df.rows |-> IF i \in I THEN KmOf(df.rows[i].KM) ELSE 0])

\* C11: for every week selection the group comparison table holds every group
\* of the normalised table exactly once, with the distance of its rows in the
\* selected week; a group without rows in that week is kept with total 0.
C11_EveryGroupOnceZeroFilled ==
    GroupBarShown =>
        /\ {view.group_bar_data[k].label : k \in DOMAIN view.group_bar_data} =
              {df.rows[i].Gruppe : i \in DOMAIN df.rows}
        /\ \A j, k \in DOMAIN view.group_bar_data :
              view.group_bar_data[j].label = view.group_bar_data[k].label => j = k
        /\ \A k \in DOMAIN view.group_bar_data :
              view.group_bar_data[k].KM = KmOfRows(RowsOfGroupInWeek(view.group_bar_data[k].label))

\* a week is selected in which one group has rows and another has none; the
\* second is shown with total 0
C11_Witness ==
    /\ GroupBarShown
    /\ ~selected_kw.gesamt
    /\ Len(view.group_bar_data) = 2
    /\ \E j, k \in DOMAIN view.group_bar_data :
          /\ view.group_bar_data[j].KM > 0
          /\ view.group_bar_data[k].KM = 0
          /\ RowsOfGroupInWeek(view.group_bar_data[k].label) = {}

\* both leaderboards were drawn in this pass
LeaderboardsShown ==
    pc = "done" /\ "group_ranking" \in rendered /\ "runner_ranking" \in rendered

\* total distance of the rows of the filtered table that carry label l in col
FilteredTotal(col, l) ==
    SumSeq([i \in DOMAIN df_filtered |->
              IF df_filtered[i][col] = l THEN KmOf(df_filtered[i].KM) ELSE 0])

\* the labels of a ranking
RankedLabels(tab) == {tab[i].label : i \in DOMAIN tab}

\* a ranking lists distinct labels of column col with their totals over the
\* filtered table, largest total first, ranked 1, 2, 3, ...
RankedDescending(tab, col) ==
    /\ \A i, j \in DOMAIN tab : tab[i].label = tab[j].label => i = j
    /\ \A i \in DOMAIN tab :
          /\ tab[i].label \in {df_filtered[k][col] : k \in DOMAIN df_filtered}
          /\ tab[i].KM = FilteredTotal(col, tab[i].label)
          /\ tab[i].index = i
    /\ \A i, j \in DOMAIN tab : i < j => tab[i].KM >= tab[j].KM

\* the progress maximum is the largest total shown, 100 for an empty ranking
ProgressScaled(tab, maxKm) ==
    IF tab = <<>> THEN maxKm = 100
    ELSE /\ \E i \in DOMAIN tab : tab[i].KM = maxKm
         /\ \A i \in DOMAIN tab : tab[i].KM <= maxKm

\* the smaller of two numbers
Min(a, b) == IF a <= b THEN a ELSE b

\* C12: both leaderboards list totals over the filtered table in descending
\* order with ranks 1, 2, ...; the team leaderboard holds every group of the
\* filtered table; the runner leaderboard holds at most 10 runners and no
\* runner left out has a larger total than one shown; each progress maximum
\* is the largest total shown, or 100 for an empty ranking.
C12_LeaderboardsRankedAndScaled ==
    LeaderboardsShown =>
        LET runners == {df_filtered[k].Name : k \in DOMAIN df_filtered} IN
        /\ RankedDescending(view.group_ranking, "Gruppe")
        /\ RankedLabels(view.group_ranking) =
              {df_filtered[k].Gruppe : k \in DOMAIN df_filtered}
        /\ RankedDescending(view.runner_ranking, "Name")
        /\ Len(view.runner_ranking) = Min(10, Cardinality(runners))
        /\ \A out \in runners \ RankedLabels(view.runner_ranking) :
              \A i \in DOMAIN view.runner_ranking :
                  FilteredTotal("Name", out) <= view.runner_ranking[i].KM
        /\ ProgressScaled(view.group_ranking, view.max_group_km)
        /\ ProgressScaled(view.runner_ranking, view.max_runner_km)

\* eleven runners with different totals in two groups: the runner leaderboard
\* shows ten, the runner left out ran the short distance, and the two teams are
\* ranked with different totals
C12_Witness ==
    /\ LeaderboardsShown
    /\ Cardinality({df_filtered[k].Name : k \in DOMAIN df_filtered}) = 11
    /\ Len(view.runner_ranking) = 10
    /\ view.runner_ranking[1].KM > view.runner_ranking[10].KM
    /\ \E k \in DOMAIN df_filtered :
          /\ df_filtered[k].Name \notin RankedLabels(view.runner_ranking)
          /\ FilteredTotal("Name", df_filtered[k].Name) = 1
    /\ Len(view.group_ranking) = 2
    /\ view.group_ranking[1].KM > view.group_ranking[2].KM
    /\ view.max_runner_km = view.runner_ranking[1].KM

====
